---- MODULE Spec2Model ----
(***************************************************************************)
(* Model of the condition monitoring engine of                             *)
(* src/monitoring/condition_monitor.py (class ConditionMonitor) and of the *)
(* request handlers of src/api/monitoring_routes.py that reach it.         *)
(*                                                                         *)
(* The engine runs on one asyncio event loop.  A coroutine is interrupted  *)
(* only at an await that suspends, so every action below is the code that  *)
(* runs between two suspension points:                                     *)
(*   - monitor_loop suspends at asyncio.sleep only (check_condition holds  *)
(*     no await), so one iteration of the loop is one action;              *)
(*   - start() holds no await: one action;                                 *)
(*   - stop() suspends at `await asyncio.gather(...)`: two actions;        *)
(*   - the synchronous methods are one action each.                        *)
(* start() and stop() are issued by one caller that awaits each call       *)
(* before the next (src/main.py, lifespan); the other operations and the   *)
(* loops interleave freely, also while stop() waits.                       *)
(*                                                                         *)
(* Condition objects are mutable and shared by reference: the dict and the *)
(* loop spawned for an entry hold the same object.  Only `enabled` is ever *)
(* written, and only through the dict (enable_condition), so an object     *)
(* that has left the dict never changes again.  The model keeps every      *)
(* object by value and records, per loop, whether the loop's object is     *)
(* still the one the dict holds (`shared`): a write through the dict is    *)
(* then applied to the dict's entry and to the loops that share it.        *)
(***************************************************************************)
EXTENDS Integers, Sequences, FiniteSets, TLC

\* ------------------------------------------------------------- bounds
MaxAlerts == 1          \* longest alert log explored under Spec
MaxLog == 2             \* longest alert log explored under SpecLog
MaxLoops == 8           \* monitor_loop tasks alive at one time
MaxLoopsRestart == 9    \* the same where start() runs twice on five conditions
MaxLoopsStatus == 4     \* the same where start() runs once
MaxStatusLog == 11      \* alerts in the log where the status route reads it
MaxObjects == 5         \* component objects created in one run
MaxStopTasks == 2       \* stop() tasks of components waiting on the event loop
MaxMtime == 2           \* modification times of a resource file
MaxClock == 2           \* wall-clock readings are 0..MaxClock
TicksPerSecond == 2     \* clock readings per second of int(time.time())

\* ---------------------------------------------------------- data model
\* AlertLevel: the enum's values.
AlertLevel == {"info", "warning", "error", "critical"}

\* Condition(name, description, check_function, validator, alert_level,
\* check_interval, enabled): the fields the engine reads or reports.  Probe
\* and validator are the environment's (see ProbeOutcomes).
Condition(n, d, lvl, iv, en) ==
    [name |-> n, description |-> d, alert_level |-> lvl,
     check_interval |-> iv, enabled |-> en]

\* The four conditions _setup_default_conditions builds, in its order.
DefaultConditions ==
    << Condition("cpu_usage", "Uso de CPU debe estar por debajo del 80%",
                 "warning", 10, TRUE),
       Condition("memory_available", "Memoria disponible debe ser mayor a 100MB",
                 "error", 15, TRUE),
       Condition("temperature_sensor", "Temperatura del sensor debe estar entre 20-80 C",
                 "critical", 5, TRUE),
       Condition("network_connectivity", "Debe haber actividad de red",
                 "warning", 20, TRUE) >>

\* The conditions callers register through add_condition: a name start()
\* never adds, with a severity no default uses.
AddedConditions == { Condition("always_fail", "siempre falla", "info", 1, TRUE) }

\* Names the callers of remove_condition and enable_condition use: one
\* default name and the added one.
OpNames == {"temperature_sensor", "always_fail"}

\* The conditions and names the registry's callers use when the registry
\* itself is examined: the added condition, and one that takes the name of
\* a default with other values in every reported field.
RegistryConditions ==
    AddedConditions \cup
    { Condition("cpu_usage", "CPU por debajo del 50%", "critical", 2, FALSE) }

RegistryNames == OpNames \cup {c.name : c \in RegistryConditions}

\* What one evaluation of probe and validator can do (lines 64-65): the
\* value passes the validator, the validator rejects it, or one of the two
\* calls raises.
ProbeOutcomes == {"valid", "invalid", "raises"}

\* The value a probe returned, as the validator sees it.
ProbeValue(o) == IF o = "valid" THEN "in_range" ELSE "out_of_range"

\* limit's default in get_alerts (line 122) and in the /alerts route.
DefaultLimit == 100

\* get_alerts(limit=10) of the status route, monitoring_routes.py line 105
StatusLimit == 10

\* get_alerts' level argument when no filter is asked for (None).
NoLevel == "none"

\* The arguments the callers of get_alerts use.
Filters == {NoLevel, "warning", "error"}
Limits == {-1, 0, 1, DefaultLimit}

VARIABLES
    conditions,   \* self.conditions: the dict, as its values in insertion
                  \* order (an entry's key is its name)
    alerts,       \* self.alerts
    running,      \* self.running
    tasks,        \* self.tasks: handles (indices into loops)
    loops,        \* the monitor_loop tasks of the event loop
    stop_pc,      \* where stop() is: "idle" or "gather" (suspended)
    now,          \* the wall clock datetime.now() / time.time() read
    lifecycle,    \* the lifecycle call made last: "new" (none yet),
                  \* "started", "stopping" (stop() waits), "stopped"
    blocked,      \* the task whose probe was called and has not returned (the
                  \* event loop's thread is inside it); 0 when there is none
    woken,        \* history: whether a loop task has run since start() last
                  \* found the engine stopped (FALSE: every live task is
                  \* one that start() created and that has not run yet)
    since_clear,  \* history: the alerts appended since clear_alerts() last
                  \* returned (since construction when it never ran)
    held,         \* the list a caller kept from a get_alerts() call
    last,         \* the step that ran last and what it observed
    result,       \* what the call that ran last returned to its caller
    \* ComponentRegistry (component_registry.py)
    components,        \* self.components: instance name -> object (0: no entry)
    component_classes, \* the keys of self.component_classes
    objects,           \* the component objects created so far: class and state
    stop_tasks,        \* the component.stop() tasks created with
                       \* asyncio.create_task that have not run yet, in order
    \* ResourceManager (resource_manager.py)
    resources,         \* the keys of self.resources
    file_timestamps,   \* self.file_timestamps: file -> mtime (0: no entry)
    watched_files,     \* self.watched_files
    mtimes,            \* the modification time of each file of the directory
    lock,              \* the thread that holds self._lock ("none")
    main_thread,       \* the request thread inside reload_all_resources
    watcher_thread     \* the watchdog thread inside on_modified

monitor_vars == <<conditions, alerts, running, tasks, loops, stop_pc, now, lifecycle,
                  blocked, woken, since_clear, held>>

component_vars == <<components, component_classes, objects, stop_tasks>>

resource_vars == <<resources, file_timestamps, watched_files, mtimes, lock,
                   main_thread, watcher_thread>>

vars == <<conditions, alerts, running, tasks, loops, stop_pc, now, lifecycle,
          blocked, woken, since_clear, held, last, result,
          component_vars, resource_vars>>

\* ------------------------------------------------------------- helpers
Range(s) == {s[k] : k \in 1..Len(s)}

\* `name in self.conditions`
HasName(conds, n) == \E k \in 1..Len(conds) : conds[k].name = n

\* position of key n in the dict (0 when absent)
KeyPos(conds, n) ==
    IF HasName(conds, n)
    THEN CHOOSE k \in 1..Len(conds) : conds[k].name = n
    ELSE 0

\* A registry that appended every added condition (a list, not a dict):
\* what C18 excludes.
Upsert_AlwaysAppends(conds, c) == Append(conds, c)

\* self.conditions[c.name] = c: an existing key keeps its position, a new
\* key goes last (dict semantics).
Upsert(conds, c) ==
    LET p == KeyPos(conds, c.name)
    IN  IF p = 0 THEN Append(conds, c) ELSE [conds EXCEPT ![p] = c]

\* The object registered under n leaves the dict: the loops that hold it
\* keep it, and no write through the dict reaches it any more.
Unshare(ls, n) ==
    [k \in 1..Len(ls) |->
        IF ls[k].shared /\ ls[k].cond.name = n
        THEN [ls[k] EXCEPT !.shared = FALSE]
        ELSE ls[k]]

\* int(time.time()): whole seconds of the clock reading
Seconds(t) == t \div TicksPerSecond

\* The record of a step: the operation, the condition name it was given or
\* (for a loop) holds, what it observed, the loop that ran (0 for a call),
\* the length of the alert log when it began, and whether it is the first
\* step of a task that start() created on a stopped engine.
Event(op, name, outcome, task) ==
    [op |-> op, name |-> name, outcome |-> outcome, task |-> task,
     before |-> Len(alerts), first |-> (task # 0 /\ ~woken)]

\* A call that returns no list.  object tells which list object a result
\* is: "new" for a list built for the caller, "log" for self.alerts itself.
NoResult == [level |-> "", limit |-> 0, value |-> <<>>, object |-> "none"]

\* A caller that holds no list.
NoHeld == [object |-> "none", value |-> <<>>]

\* What a caller reads in the list it holds once the log is log: append()
\* and clear() change self.alerts in place (lines 77, 89, 143 and
\* monitoring_routes.py line 138), so a holder of that very object sees the
\* change and a holder of another list does not.
Seen(h, log) == IF h.object = "log" THEN [h EXCEPT !.value = log] ELSE h

\* ComponentState, component_registry.py lines 13-18.
ComponentState == {"stopped", "starting", "running", "stopping", "error"}

\* The classes load_components registers, lines 169-171.
ComponentTypes == {"logging", "alerting", "monitoring"}

\* The instances load_components creates, lines 174-176: instance name and
\* type are the same word.
DefaultInstances == <<"logging", "alerting", "monitoring">>

\* The arguments of the calls: registered and unregistered types, names of
\* instances that exist and of one that does not.
TypeInputs == {"alerting", "monitoring", "no_such_type"}
InstanceInputs == {"logging", "no_such_instance"}
InstanceNames == ComponentTypes \cup InstanceInputs

\* The files of the resource directory (two of those
\* _create_default_resources writes, lines 89-92).
Files == {"app_config.json", "alert_messages.json"}

\* os.path.splitext(filename)[0], line 140.
ResourceName(f) ==
    CASE f = "app_config.json" -> "app_config"
      [] f = "alert_messages.json" -> "alert_messages"

\* A thread that is in no call.
Idle == [pc |-> "idle", file |-> "", mtime |-> 0, todo |-> {}]

\* --------------------------------------------------------------- Init
\* __init__, lines 41-45.
Init ==
    /\ conditions = <<>>
    /\ alerts = <<>>
    /\ running = FALSE
    /\ tasks = <<>>
    /\ loops = <<>>
    /\ stop_pc = "idle"
    /\ now = 0
    /\ lifecycle = "new"
    /\ blocked = 0
    /\ woken = FALSE
    /\ since_clear = <<>>
    /\ held = NoHeld
    /\ last = Event("init", "", "", 0)
    /\ result = NoResult
    /\ components = [n \in InstanceNames |-> 0]
    /\ component_classes = {}
    /\ objects = <<>>
    /\ stop_tasks = <<>>
    /\ resources = {}
    /\ file_timestamps = [f \in Files |-> 0]
    /\ watched_files = {}
    /\ mtimes = [f \in Files |-> 1]
    /\ lock = "none"
    /\ main_thread = Idle
    /\ watcher_thread = Idle

\* ------------------------------------------------------ registry calls
\* add_condition(condition), lines 47-49, with a freshly built Condition.
add_condition(c) ==
    /\ conditions' = Upsert(conditions, c)
    /\ loops' = Unshare(loops, c.name)
    /\ last' = Event("add_condition", c.name, "", 0)
    /\ result' = NoResult
    /\ UNCHANGED <<alerts, running, tasks, stop_pc, now, blocked, woken, lifecycle, since_clear, held, component_vars, resource_vars>>

\* A removal without the membership test: `del` of an absent key raises
\* KeyError and the call does not complete.  What C19 excludes.
remove_condition_Unguarded(n) ==
    /\ HasName(conditions, n)
    /\ conditions' = SelectSeq(conditions, LAMBDA c : c.name # n)
    /\ loops' = Unshare(loops, n)
    /\ last' = Event("remove_condition", n, "", 0)
    /\ result' = NoResult
    /\ UNCHANGED <<alerts, running, tasks, stop_pc, now, blocked, woken, lifecycle, since_clear, held, component_vars, resource_vars>>

\* remove_condition(condition_name), lines 51-54.
remove_condition(n) ==
    /\ conditions' =
         IF HasName(conditions, n)
         THEN SelectSeq(conditions, LAMBDA c : c.name # n)
         ELSE conditions
    /\ loops' = Unshare(loops, n)
    /\ last' = Event("remove_condition", n, "", 0)
    /\ result' = NoResult
    /\ UNCHANGED <<alerts, running, tasks, stop_pc, now, blocked, woken, lifecycle, since_clear, held, component_vars, resource_vars>>

\* A write that reached every Condition object of that name, also those
\* the dict no longer holds: what C26 excludes.
SetEnabled_AllOfName(ls, n, en) ==
    [k \in 1..Len(ls) |->
        IF ls[k].cond.name = n
        THEN [ls[k] EXCEPT !.cond.enabled = en]
        ELSE ls[k]]

\* self.conditions[condition_name].enabled = enabled, line 59: the write
\* to the object the dict holds, seen by every loop that holds it too.
SetEnabled(ls, n, en) ==
    [k \in 1..Len(ls) |->
        IF ls[k].shared /\ ls[k].cond.name = n
        THEN [ls[k] EXCEPT !.cond.enabled = en]
        ELSE ls[k]]

\* An enable_condition that flipped the flag instead of setting it: what
\* C20 excludes.
enable_condition_Toggles(n, en) ==
    /\ IF HasName(conditions, n)
       THEN /\ conditions' = [conditions EXCEPT ![KeyPos(conditions, n)].enabled = ~@]
            /\ loops' = SetEnabled(loops, n, ~conditions[KeyPos(conditions, n)].enabled)
       ELSE UNCHANGED <<conditions, loops>>
    /\ last' = Event("enable_condition", n, IF en THEN "enable" ELSE "disable", 0)
    /\ result' = NoResult
    /\ UNCHANGED <<alerts, running, tasks, stop_pc, now, blocked, woken, lifecycle, since_clear, held, component_vars, resource_vars>>

\* enable_condition(condition_name, enabled), lines 56-59.
enable_condition(n, en) ==
    /\ IF HasName(conditions, n)
       THEN /\ conditions' = [conditions EXCEPT ![KeyPos(conditions, n)].enabled = en]
            /\ loops' = SetEnabled(loops, n, en)
       ELSE UNCHANGED <<conditions, loops>>
    /\ last' = Event("enable_condition", n, IF en THEN "enable" ELSE "disable", 0)
    /\ result' = NoResult
    /\ UNCHANGED <<alerts, running, tasks, stop_pc, now, blocked, woken, lifecycle, since_clear, held, component_vars, resource_vars>>

\* get_conditions(), lines 129-139: the dict of the reported fields, as
\* its items in the registry's order.
GetConditions(conds) ==
    [k \in 1..Len(conds) |->
        [name |-> conds[k].name,
         description |-> conds[k].description,
         enabled |-> conds[k].enabled,
         alert_level |-> conds[k].alert_level,
         check_interval |-> conds[k].check_interval]]

get_conditions ==
    /\ result' = [level |-> "", limit |-> 0, value |-> GetConditions(conditions),
                  object |-> "new"]
    /\ last' = Event("get_conditions", "", "", 0)
    /\ UNCHANGED <<conditions, alerts, running, tasks, loops, stop_pc, now, blocked,
                   woken, lifecycle, since_clear, held, component_vars, resource_vars>>

\* ---------------------------------------------------------- evaluation
\* A failure alert that carried a fixed severity instead of the
\* condition's: what C2 excludes.
FailureAlert_FixedSeverity(c, value, t) ==
    [ id |-> <<"alert", c.name, Seconds(t)>>,
      level |-> "error",
      message |-> <<"fallo", c.name>>,
      timestamp |-> t,
      condition_name |-> c.name,
      current_value |-> value,
      expected_range |-> "Segun validador configurado" ]

\* The Alert check_condition builds when the validator rejects the value
\* (lines 68-76).
FailureAlert(c, value, t) ==
    [ id |-> <<"alert", c.name, Seconds(t)>>,
      level |-> c.alert_level,
      message |-> <<"fallo", c.name>>,
      timestamp |-> t,
      condition_name |-> c.name,
      current_value |-> value,
      expected_range |-> "Segun validador configurado" ]

\* An error alert that carried the condition's severity instead of ERROR:
\* what C3 excludes.
ErrorAlert_ConditionSeverity(c, t) ==
    [ id |-> <<"error", c.name, Seconds(t)>>,
      level |-> c.alert_level,
      message |-> <<"Error verificando", c.name>>,
      timestamp |-> t,
      condition_name |-> c.name,
      current_value |-> "ERROR",
      expected_range |-> "N/A" ]

\* The Alert check_condition builds in its except branch (lines 81-89).
ErrorAlert(c, t) ==
    [ id |-> <<"error", c.name, Seconds(t)>>,
      level |-> "error",
      message |-> <<"Error verificando", c.name>>,
      timestamp |-> t,
      condition_name |-> c.name,
      current_value |-> "ERROR",
      expected_range |-> "N/A" ]

\* An evaluation with the validator's verdict inverted (`if is_valid:`):
\* what C4 excludes.
check_condition_InvertedTest(log, c, o, t) ==
    CASE o = "valid" -> Append(log, FailureAlert(c, ProbeValue(o), t))
      [] o = "invalid" -> log
      [] OTHER -> Append(log, ErrorAlert(c, t))

\* check_condition(condition), lines 61-90: the alert log after the call,
\* for what probe and validator did.  An exception is one `except
\* Exception` catches; the print of line 78 is taken to succeed.
check_condition(log, c, o, t) ==
    CASE o = "valid" -> log
      [] o = "invalid" -> Append(log, FailureAlert(c, ProbeValue(o), t))
      [] OTHER -> Append(log, ErrorAlert(c, t))

\* A guard that did not read the enabled flag: what C1 excludes.
ShouldCheck_IgnoresEnabled(c) == HasName(conditions, c.name)

\* A guard that did not look the name up in the registry: what C32
\* excludes.
ShouldCheck_IgnoresRegistry(c) == c.enabled

\* The guard of monitor_loop's evaluation, line 95.
ShouldCheck(c) == c.enabled /\ HasName(conditions, c.name)

\* A task that has ended: its coroutine frame, and with it the reference to
\* the Condition, is gone.
Finished == [cond |-> Condition("", "", "info", 0, FALSE), shared |-> FALSE, pc |-> "done"]

\* A loop without check_condition's except branch: the exception of a
\* probe ends the task.  What C15 excludes.
monitor_loop_DiesOnError(i, o, cap) ==
    LET c == loops[i].cond IN
    /\ loops[i].pc = "waiting"
    /\ IF ~running
       THEN /\ loops' = [loops EXCEPT ![i] = Finished]
            /\ last' = Event("loop_exit", c.name, "", i)
            /\ UNCHANGED alerts
       ELSE IF ShouldCheck(c)
       THEN /\ alerts' = check_condition(alerts, c, o, now)
            /\ Len(alerts') <= cap
            /\ last' = Event("loop", c.name, o, i)
            /\ loops' = IF o = "raises" THEN [loops EXCEPT ![i] = Finished] ELSE loops
       ELSE /\ last' = Event("loop", c.name, "skipped", i)
            /\ UNCHANGED <<alerts, loops>>
    /\ woken' = TRUE
    /\ held' = Seen(held, alerts')
    /\ since_clear' = since_clear \o SubSeq(alerts', Len(alerts) + 1, Len(alerts'))
    /\ result' = NoResult
    /\ UNCHANGED <<conditions, running, tasks, stop_pc, now, blocked, lifecycle, component_vars, resource_vars>>

\* One iteration of monitor_loop (lines 94-97) of task i: the task is
\* resumed (first run, or its sleep ended), tests self.running, evaluates
\* or skips, and suspends at asyncio.sleep again.  cap bounds the log.
monitor_loop(i, o, cap) ==
    LET c == loops[i].cond IN
    /\ loops[i].pc = "waiting"
    /\ IF ~running
       THEN /\ loops' = [loops EXCEPT ![i] = Finished]
            /\ last' = Event("loop_exit", c.name, "", i)
            /\ UNCHANGED alerts
       ELSE IF ShouldCheck(c)
       THEN /\ alerts' = check_condition(alerts, c, o, now)
            /\ Len(alerts') <= cap
            /\ last' = Event("loop", c.name, o, i)
            /\ UNCHANGED loops
       ELSE /\ last' = Event("loop", c.name, "skipped", i)
            /\ UNCHANGED <<alerts, loops>>
    /\ woken' = TRUE
    /\ held' = Seen(held, alerts')
    /\ since_clear' = since_clear \o SubSeq(alerts', Len(alerts) + 1, Len(alerts'))
    /\ result' = NoResult
    /\ UNCHANGED <<conditions, running, tasks, stop_pc, now, blocked, lifecycle, component_vars, resource_vars>>

\* An iteration of monitor_loop whose probe does not return: line 64 calls
\* condition.check_function() synchronously, on the event loop's thread.
probe_blocks(i) ==
    LET c == loops[i].cond IN
    /\ blocked = 0
    /\ loops[i].pc = "waiting"
    /\ running /\ ShouldCheck(c)
    /\ blocked' = i
    /\ woken' = TRUE
    /\ last' = Event("loop_blocked", c.name, "blocks", i)
    /\ result' = NoResult
    /\ UNCHANGED <<conditions, alerts, running, tasks, loops, stop_pc, now,
                   lifecycle, since_clear, held, component_vars, resource_vars>>

\* The probe that probe_blocks called returns after all, or raises:
\* check_condition goes on from line 65 to its end without an await, and
\* the task suspends at asyncio.sleep, line 97.
probe_returns(o, cap) ==
    LET c == loops[blocked].cond IN
    /\ blocked # 0
    /\ alerts' = check_condition(alerts, c, o, now)
    /\ Len(alerts') <= cap
    /\ blocked' = 0
    /\ last' = Event("probe_returns", c.name, o, blocked)
    /\ held' = Seen(held, alerts')
    /\ since_clear' = since_clear \o SubSeq(alerts', Len(alerts) + 1, Len(alerts'))
    /\ result' = NoResult
    /\ UNCHANGED <<conditions, running, tasks, loops, stop_pc, now, woken, lifecycle, component_vars, resource_vars>>

\* ----------------------------------------------------------- lifecycle
\* _setup_default_conditions, lines 145-193: four fresh Condition objects,
\* each registered with add_condition.
\* A set-up that registered only the defaults whose names are absent
\* (setdefault): what C31 excludes.
UpsertAll_KeepsExisting(conds, cs) ==
    conds \o SelectSeq(cs, LAMBDA c : ~HasName(conds, c.name))

RECURSIVE UpsertAll(_, _)
UpsertAll(conds, cs) ==
    IF cs = <<>> THEN conds
    ELSE UpsertAll(Upsert(conds, Head(cs)), Tail(cs))

RECURSIVE UnshareAll(_, _)
UnshareAll(ls, cs) ==
    IF cs = <<>> THEN ls
    ELSE UnshareAll(Unshare(ls, Head(cs).name), Tail(cs))

\* A start() that spawned loops for the default conditions only: what C8
\* excludes.
SpawnAll_DefaultsOnly(conds) ==
    LET defaults == SelectSeq(conds,
                       LAMBDA c : \E k \in 1..Len(DefaultConditions) :
                                     DefaultConditions[k].name = c.name)
    IN  [k \in 1..Len(defaults) |->
            [cond |-> defaults[k], shared |-> TRUE, pc |-> "waiting"]]

\* The tasks start() creates, lines 106-108: one per value of the dict, in
\* the dict's order, each holding the dict's object.
SpawnAll(conds) ==
    [k \in 1..Len(conds) |-> [cond |-> conds[k], shared |-> TRUE, pc |-> "waiting"]]

\* start(), lines 99-108.  cap bounds the tasks alive at one time.
start_upto(cap) ==
    /\ stop_pc = "idle"
    /\ running' = TRUE
    /\ conditions' = UpsertAll(conditions, DefaultConditions)
    /\ loops' = UnshareAll(loops, DefaultConditions) \o SpawnAll(conditions')
    /\ Len(loops') <= cap
    /\ tasks' = tasks \o [k \in 1..(Len(loops') - Len(loops)) |-> Len(loops) + k]
    /\ lifecycle' = "started"
    /\ woken' = (running /\ woken)
    /\ last' = Event("start", "", IF running THEN "was_running" ELSE "was_stopped", 0)
    /\ result' = NoResult
    /\ UNCHANGED <<alerts, stop_pc, now, blocked, since_clear, held, component_vars, resource_vars>>

start == start_upto(MaxLoops)

\* A stop() whose cancel() calls have no effect: what C23 excludes.
CancelAll_None(ls, handles) == ls

\* task.cancel() on every handle of self.tasks, lines 113-114: a task that
\* has not finished gets CancelledError at its suspension point the next
\* time the event loop runs it; a finished task is left as it is.
CancelAll(ls, handles) ==
    [k \in 1..Len(ls) |->
        IF k \in Range(handles) /\ ls[k].pc = "waiting"
        THEN [ls[k] EXCEPT !.pc = "cancelling"]
        ELSE ls[k]]

\* A stop() that cancelled the tasks but left the running flag set: what
\* C5 excludes.
stop_begin_KeepsRunning ==
    /\ stop_pc = "idle"
    /\ loops' = CancelAll(loops, tasks)
    /\ IF tasks = <<>>
       THEN /\ stop_pc' = "idle"
            /\ lifecycle' = "stopped"
            /\ last' = Event("stop", "", "", 0)
       ELSE /\ stop_pc' = "gather"
            /\ lifecycle' = "stopping"
            /\ last' = Event("stop_begin", "", "", 0)
    /\ result' = NoResult
    /\ UNCHANGED <<conditions, alerts, running, tasks, now, blocked, woken, since_clear, held, component_vars, resource_vars>>

\* stop() up to its await, lines 112-115.  gather() of no task is already
\* complete, and stop() then runs to its end without suspending.
stop_begin ==
    /\ stop_pc = "idle"
    /\ running' = FALSE
    /\ loops' = CancelAll(loops, tasks)
    /\ IF tasks = <<>>
       THEN /\ stop_pc' = "idle"
            /\ lifecycle' = "stopped"
            /\ last' = Event("stop", "", "", 0)
       ELSE /\ stop_pc' = "gather"
            /\ lifecycle' = "stopping"
            /\ last' = Event("stop_begin", "", "", 0)
    /\ result' = NoResult
    /\ UNCHANGED <<conditions, alerts, tasks, now, blocked, woken, since_clear, held, component_vars, resource_vars>>

\* The event loop throws CancelledError into the cancelled tasks: the
\* coroutine has no handler for it and the task ends.  cancel() was called
\* on the tasks back to back, so their wake-ups are neighbours in the event
\* loop's first-in-first-out ready queue and no other coroutine runs
\* between them: they end in one step.
EndCancelled(ls) ==
    [k \in 1..Len(ls) |-> IF ls[k].pc = "cancelling" THEN Finished ELSE ls[k]]

tasks_cancelled ==
    /\ \E k \in 1..Len(loops) : loops[k].pc = "cancelling"
    /\ loops' = EndCancelled(loops)
    /\ last' = Event("tasks_cancelled", "", "", 0)
    /\ result' = NoResult
    /\ UNCHANGED <<conditions, alerts, running, tasks, stop_pc, now, blocked, woken, lifecycle, since_clear, held, component_vars, resource_vars>>

\* A stop() that did not wait for its tasks (no gather): what C6 excludes.
stop_end_NoJoin ==
    /\ stop_pc = "gather"
    /\ tasks' = <<>>
    /\ loops' = SelectSeq(loops, LAMBDA l : l.pc # "done")
    /\ stop_pc' = "idle"
    /\ lifecycle' = "stopped"
    /\ last' = Event("stop", "", "", 0)
    /\ result' = NoResult
    /\ UNCHANGED <<conditions, alerts, running, now, blocked, woken, since_clear, held, component_vars, resource_vars>>

\* stop() after its await, lines 115-116: gather completes when every
\* task it was given has finished; then self.tasks.clear().  A finished
\* task that no handle refers to any more is freed.
stop_end ==
    /\ stop_pc = "gather"
    /\ \A k \in Range(tasks) : loops[k].pc = "done"
    /\ tasks' = <<>>
    /\ loops' = SelectSeq(loops, LAMBDA l : l.pc # "done")
    /\ stop_pc' = "idle"
    /\ lifecycle' = "stopped"
    /\ last' = Event("stop", "", "", 0)
    /\ result' = NoResult
    /\ UNCHANGED <<conditions, alerts, running, now, blocked, woken, since_clear, held, component_vars, resource_vars>>

\* ------------------------------------------------------- alert queries
\* sorted(alerts, key=lambda x: x.timestamp, reverse=True), line 127:
\* Python's sort is stable, also with reverse=True, so alerts of equal
\* timestamp keep the order they have in the input.
InsertDesc(sorted, a) ==
    LET n == Cardinality({k \in 1..Len(sorted) : sorted[k].timestamp >= a.timestamp})
    IN  SubSeq(sorted, 1, n) \o <<a>> \o SubSeq(sorted, n + 1, Len(sorted))

\* A sort without reverse=True (oldest first): what C9 excludes.
RECURSIVE SortedDesc_Ascending(_)
SortedDesc_Ascending(log) ==
    IF log = <<>> THEN <<>>
    ELSE LET rest == SortedDesc_Ascending(SubSeq(log, 1, Len(log) - 1))
             a == log[Len(log)]
             n == Cardinality({k \in 1..Len(rest) : rest[k].timestamp <= a.timestamp})
         IN  SubSeq(rest, 1, n) \o <<a>> \o SubSeq(rest, n + 1, Len(rest))

RECURSIVE SortedDesc(_)
SortedDesc(log) ==
    IF log = <<>> THEN <<>>
    ELSE InsertDesc(SortedDesc(SubSeq(log, 1, Len(log) - 1)), log[Len(log)])

\* seq[:limit]: a negative limit counts from the end of the list.
SliceTo(seq, limit) ==
    IF limit >= 0
    THEN SubSeq(seq, 1, IF limit < Len(seq) THEN limit ELSE Len(seq))
    ELSE SubSeq(seq, 1, IF Len(seq) + limit > 0 THEN Len(seq) + limit ELSE 0)

\* A get_alerts that truncated the log before sorting it: what C10
\* excludes.
GetAlerts_TruncatesFirst(log, level, limit) ==
    LET kept == IF level # NoLevel
                THEN SelectSeq(log, LAMBDA a : a.level = level)
                ELSE log
    IN  SortedDesc(SliceTo(kept, limit))

\* A get_alerts that handed out self.alerts itself when no filter is
\* given: what C25 excludes.
GetAlertsObject_Aliases(level, limit) ==
    IF level = NoLevel THEN "log" ELSE "new"

\* The list object get_alerts returns, lines 124-127: sorted() builds a
\* new list and the slice [:limit] another one, with or without a filter.
GetAlertsObject(level, limit) == "new"

\* get_alerts(level, limit), lines 122-127.
GetAlerts(log, level, limit) ==
    LET kept == IF level # NoLevel
                THEN SelectSeq(log, LAMBDA a : a.level = level)
                ELSE log
    IN  SliceTo(SortedDesc(kept), limit)

get_alerts(level, limit) ==
    /\ result' = [level |-> level, limit |-> limit,
                  value |-> GetAlerts(alerts, level, limit),
                  object |-> GetAlertsObject(level, limit)]
    /\ last' = Event("get_alerts", "", "", 0)
    /\ UNCHANGED <<conditions, alerts, running, tasks, loops, stop_pc, now, blocked, woken, lifecycle, since_clear, held, component_vars, resource_vars>>

\* The caller of get_alerts keeps the list it was given (the route's local
\* variable, monitoring_routes.py line 42) while the engine goes on.
caller_keeps ==
    /\ last.op = "get_alerts"
    /\ held' = Seen([object |-> result.object, value |-> result.value], alerts)
    /\ last' = Event("caller_keeps", "", "", 0)
    /\ UNCHANGED <<conditions, alerts, running, tasks, loops, stop_pc, now, blocked,
                   woken, lifecycle, since_clear, result, component_vars, resource_vars>>

\* A status report whose per-severity counts are taken over the whole
\* log: what C30 excludes.
GetMonitoringStatus_WholeLog ==
    LET conds == GetConditions(conditions)
        recent == GetAlerts(alerts, NoLevel, StatusLimit)
    IN  [ is_running |-> running,
          total_conditions |-> Len(conds),
          enabled_conditions |-> Len(SelectSeq(conds, LAMBDA c : c.enabled)),
          total_alerts |-> Len(alerts),
          recent_alerts |-> Len(recent),
          alert_levels |-> [l \in AlertLevel |->
                               Len(SelectSeq(alerts, LAMBDA a : a.level = l))] ]

\* The dict the /status route returns, monitoring_routes.py lines 104-117.
GetMonitoringStatus ==
    LET conds == GetConditions(conditions)
        recent == GetAlerts(alerts, NoLevel, StatusLimit)
    IN  [ is_running |-> running,
          total_conditions |-> Len(conds),
          enabled_conditions |-> Len(SelectSeq(conds, LAMBDA c : c.enabled)),
          total_alerts |-> Len(alerts),
          recent_alerts |-> Len(recent),
          alert_levels |-> [l \in AlertLevel |->
                               Len(SelectSeq(recent, LAMBDA a : a.level = l))] ]

\* get_monitoring_status, monitoring_routes.py lines 100-119: the handler
\* holds no await, so it reads registry and log in one state.
get_monitoring_status ==
    /\ result' = [level |-> "", limit |-> StatusLimit, value |-> GetMonitoringStatus,
                  object |-> "new"]
    /\ last' = Event("get_monitoring_status", "", "", 0)
    /\ UNCHANGED <<conditions, alerts, running, tasks, loops, stop_pc, now, blocked,
                   woken, lifecycle, since_clear, held, component_vars, resource_vars>>

\* A clear that left the newest alert in the log: what C11 excludes.
clear_alerts_KeepsNewest ==
    /\ alerts' = IF alerts = <<>> THEN <<>> ELSE <<alerts[Len(alerts)]>>
    /\ held' = Seen(held, alerts')
    /\ since_clear' = <<>>
    /\ last' = Event("clear_alerts", "", "", 0)
    /\ result' = NoResult
    /\ UNCHANGED <<conditions, running, tasks, loops, stop_pc, now, blocked, woken, lifecycle, component_vars, resource_vars>>

\* A clear that emptied the list of task handles as well: what C27
\* excludes.
clear_alerts_ClearsTasks ==
    /\ alerts' = <<>>
    /\ tasks' = <<>>
    /\ held' = Seen(held, alerts')
    /\ since_clear' = <<>>
    /\ last' = Event("clear_alerts", "", "", 0)
    /\ result' = NoResult
    /\ UNCHANGED <<conditions, running, loops, stop_pc, now, blocked, woken, lifecycle, component_vars, resource_vars>>

\* clear_alerts(), lines 141-143.
clear_alerts ==
    /\ alerts' = <<>>
    /\ held' = Seen(held, alerts')
    /\ since_clear' = <<>>
    /\ last' = Event("clear_alerts", "", "", 0)
    /\ result' = NoResult
    /\ UNCHANGED <<conditions, running, tasks, loops, stop_pc, now, blocked, woken, lifecycle, component_vars, resource_vars>>

\* The Alert the /test-alert route builds, monitoring_routes.py lines
\* 128-136.
TestAlert(t) ==
    [ id |-> <<"test_alert", "", Seconds(t)>>,
      level |-> "warning",
      message |-> <<"prueba", "">>,
      timestamp |-> t,
      condition_name |-> "test_condition",
      current_value |-> "test_value",
      expected_range |-> "test_range" ]

\* A test-alert route that put its alert at the head of the log: what C24
\* excludes.
create_test_alert_Prepends(cap) ==
    /\ Len(alerts) < cap
    /\ alerts' = <<TestAlert(now)>> \o alerts
    /\ held' = Seen(held, alerts')
    /\ since_clear' = Append(since_clear, TestAlert(now))
    /\ last' = Event("create_test_alert", "", "", 0)
    /\ result' = NoResult
    /\ UNCHANGED <<conditions, running, tasks, loops, stop_pc, now, blocked, woken, lifecycle, component_vars, resource_vars>>

\* create_test_alert, monitoring_routes.py lines 121-145: the direct append.
create_test_alert(cap) ==
    /\ Len(alerts) < cap
    /\ alerts' = Append(alerts, TestAlert(now))
    /\ held' = Seen(held, alerts')
    /\ since_clear' = Append(since_clear, TestAlert(now))
    /\ last' = Event("create_test_alert", "", "", 0)
    /\ result' = NoResult
    /\ UNCHANGED <<conditions, running, tasks, loops, stop_pc, now, blocked, woken, lifecycle, component_vars, resource_vars>>

\* --------------------------------------------------------------- clock
\* The wall clock moves on between two steps of the program ...
tick ==
    /\ now < MaxClock
    /\ now' = now + 1
    /\ UNCHANGED <<conditions, alerts, running, tasks, loops, stop_pc, lifecycle, blocked, woken, since_clear, held,
                 last, result, component_vars, resource_vars>>

\* ... and datetime.now() is local wall-clock time, which can be set back.
clock_set_back ==
    /\ now > 0
    /\ now' = now - 1
    /\ UNCHANGED <<conditions, alerts, running, tasks, loops, stop_pc, lifecycle, blocked, woken, since_clear, held,
                 last, result, component_vars, resource_vars>>

\* ------------------------------------------------- component registry
\* A component that came to life RUNNING: what C34 excludes.
NewComponent_Running(t) == [class |-> t, state |-> "running"]

\* component_class(), line 191, and BaseComponent.__init__, line 25.
NewComponent(t) == [class |-> t, state |-> "stopped"]

\* create_component(component_type, instance_name), lines 184-197, on a
\* registry comps and objects objs: what it returns and what it leaves.
\* The new object takes the place of whatever the name referred to.
CreateIn(comps, objs, t, n) ==
    IF t \notin component_classes
    THEN [ok |-> FALSE, components |-> comps, objects |-> objs]
    ELSE [ok |-> TRUE,
          components |-> [comps EXCEPT ![n] = Len(objs) + 1],
          objects |-> Append(objs, NewComponent(t))]

\* asyncio.create_task(component.stop()) for a RUNNING component, lines
\* 207-209 and 246-248: the task waits in the event loop's queue.  cause
\* is history: the call that created the task and how it ended.
Schedule(o, cause) ==
    IF objects[o].state = "running"
    THEN Append(stop_tasks, [obj |-> o, cause |-> cause])
    ELSE stop_tasks

BoolStr(b) == IF b THEN "true" ELSE "false"

\* load_components(), lines 167-176, called once at start-up (main.py
\* line 26).
load_components ==
    /\ component_classes = {}
    /\ Len(objects) + Len(DefaultInstances) <= MaxObjects
    /\ component_classes' = ComponentTypes
    /\ objects' = objects \o [k \in 1..Len(DefaultInstances) |->
                                 NewComponent(DefaultInstances[k])]
    /\ components' = [n \in InstanceNames |->
                        IF \E k \in 1..Len(DefaultInstances) : DefaultInstances[k] = n
                        THEN Len(objects)
                             + (CHOOSE k \in 1..Len(DefaultInstances) : DefaultInstances[k] = n)
                        ELSE components[n]]
    /\ last' = Event("load_components", "", "", 0)
    /\ result' = NoResult
    /\ UNCHANGED <<stop_tasks, monitor_vars, resource_vars>>

\* create_component(component_type, instance_name), lines 184-197.
create_component(t, n) ==
    LET r == CreateIn(components, objects, t, n) IN
    /\ Len(r.objects) <= MaxObjects
    /\ components' = r.components
    /\ objects' = r.objects
    /\ last' = Event("create_component", n, BoolStr(r.ok), 0)
    /\ result' = NoResult
    /\ UNCHANGED <<component_classes, stop_tasks, monitor_vars, resource_vars>>

\* replace_component(instance_name, new_component_type), lines 199-216:
\* the stop task is created before create_component is tried.
replace_component(n, t) ==
    /\ IF components[n] = 0
       THEN /\ last' = Event("replace_component", n, "false", 0)
            /\ UNCHANGED <<components, objects, stop_tasks>>
       ELSE LET r == CreateIn(components, objects, t, n) IN
            /\ Len(r.objects) <= MaxObjects
            /\ stop_tasks' = Schedule(components[n],
                                      IF r.ok THEN "replaced" ELSE "replace_failed")
            /\ Len(stop_tasks') <= MaxStopTasks
            /\ components' = r.components
            /\ objects' = r.objects
            /\ last' = Event("replace_component", n, BoolStr(r.ok), 0)
    /\ result' = NoResult
    /\ UNCHANGED <<component_classes, monitor_vars, resource_vars>>

\* remove_component(instance_name), lines 240-251.
remove_component(n) ==
    /\ IF components[n] = 0
       THEN /\ last' = Event("remove_component", n, "false", 0)
            /\ UNCHANGED <<components, stop_tasks>>
       ELSE /\ stop_tasks' = Schedule(components[n], "removed")
            /\ Len(stop_tasks') <= MaxStopTasks
            /\ components' = [components EXCEPT ![n] = 0]
            /\ last' = Event("remove_component", n, "true", 0)
    /\ result' = NoResult
    /\ UNCHANGED <<component_classes, objects, monitor_vars, resource_vars>>

\* start_component(instance_name), lines 218-222: the awaited start() of
\* the three classes (lines 61-71, 103-112, 134-143) holds no suspending
\* await, so STARTING is left within the call.
start_component(n) ==
    /\ IF components[n] = 0
       THEN /\ last' = Event("start_component", n, "false", 0)
            /\ UNCHANGED objects
       ELSE /\ objects' = [objects EXCEPT ![components[n]].state = "running"]
            /\ last' = Event("start_component", n, "true", 0)
    /\ result' = NoResult
    /\ UNCHANGED <<components, component_classes, stop_tasks, monitor_vars, resource_vars>>

\* stop_component(instance_name), lines 224-228, with stop() of lines
\* 73-77, 114-117, 145-148.
stop_component(n) ==
    /\ IF components[n] = 0
       THEN /\ last' = Event("stop_component", n, "false", 0)
            /\ UNCHANGED objects
       ELSE /\ objects' = [objects EXCEPT ![components[n]].state = "stopped"]
            /\ last' = Event("stop_component", n, "true", 0)
    /\ result' = NoResult
    /\ UNCHANGED <<components, component_classes, stop_tasks, monitor_vars, resource_vars>>

\* The event loop runs the oldest waiting stop() task: stop() holds no
\* await and ends with the component STOPPED.
component_stop_task ==
    /\ stop_tasks # <<>>
    /\ objects' = [objects EXCEPT ![Head(stop_tasks).obj].state = "stopped"]
    /\ stop_tasks' = Tail(stop_tasks)
    /\ last' = Event("stop_task", "", Head(stop_tasks).cause, Head(stop_tasks).obj)
    /\ result' = NoResult
    /\ UNCHANGED <<components, component_classes, monitor_vars, resource_vars>>

\* --------------------------------------------------- resource manager
\* resource_manager.py.  Two threads call reload_resource: the thread of
\* the event loop ("main", through reload_all_resources) and the thread of
\* the watchdog observer ("watcher", through on_modified).  A thread is a
\* record: pc is its position, file and mtime are the locals filename and
\* current_mtime of reload_resource, todo is what it still has to handle
\* (main: the files of the os.listdir loop, watcher: the files with a
\* queued modification event).
Threads == {"main", "watcher"}

Thread(t) == IF t = "main" THEN main_thread ELSE watcher_thread

SetThread(t, v) ==
    IF t = "main"
    THEN main_thread' = v /\ UNCHANGED watcher_thread
    ELSE watcher_thread' = v /\ UNCHANGED main_thread

\* Where a thread is once reload_resource has returned: main is back in
\* the loop of _load_all_resource_files (line 110), the watcher waits for
\* the next event.
AfterReload(t, th) ==
    IF t = "main"
    THEN [pc |-> "loop", file |-> "", mtime |-> 0, todo |-> th.todo]
    ELSE [pc |-> "idle", file |-> "", mtime |-> 0, todo |-> th.todo]

\* Lines 123-124: the file has a recorded timestamp that is not older than
\* its mtime (0 stands for "no entry").
UpToDate(stamps, f, mtime) == stamps[f] # 0 /\ stamps[f] >= mtime

\* load_resources, lines 43-47, called once at startup (main.py line 25):
\* the files are written and loaded before the observer thread starts, so
\* no other thread runs meanwhile.
load_resources ==
    /\ watched_files = {}
    /\ main_thread = Idle
    /\ resources' = {ResourceName(f) : f \in Files}
    /\ file_timestamps' = mtimes
    /\ watched_files' = Files
    /\ last' = Event("load_resources", "", "", 0)
    /\ result' = NoResult
    /\ UNCHANGED <<mtimes, lock, main_thread, watcher_thread, monitor_vars, component_vars>>

\* A resource file is written (by an editor, or _save_resource lines
\* 94-103): its mtime grows and the observer queues a modification event.
modify_file(f) ==
    /\ watched_files # {}
    /\ mtimes[f] < MaxMtime
    /\ mtimes' = [mtimes EXCEPT ![f] = @ + 1]
    /\ watcher_thread' = [watcher_thread EXCEPT !.todo = @ \cup {f}]
    /\ last' = Event("modify_file", f, "", 0)
    /\ result' = NoResult
    /\ UNCHANGED <<resources, file_timestamps, watched_files, lock, main_thread,
                   monitor_vars, component_vars>>

\* on_modified, lines 22-27: the observer thread takes an event and calls
\* reload_resource if the file is watched.
on_modified(f) ==
    /\ watcher_thread.pc = "idle"
    /\ f \in watcher_thread.todo
    /\ watcher_thread' =
          IF f \in watched_files
          THEN [pc |-> "lock", file |-> f, mtime |-> 0,
                todo |-> watcher_thread.todo \ {f}]
          ELSE [watcher_thread EXCEPT !.todo = @ \ {f}]
    /\ last' = Event("on_modified", f, BoolStr(f \in watched_files), 0)
    /\ result' = NoResult
    /\ UNCHANGED <<resources, file_timestamps, watched_files, mtimes, lock, main_thread,
                   monitor_vars, component_vars>>

\* reload_resource, lines 118-137: take the lock, read the mtime, return
\* if the recorded timestamp is not older (the with statement releases
\* the lock), else read the file.
reload_resource_check(t) ==
    LET th == Thread(t) IN
    /\ th.pc = "lock"
    /\ lock = "none"
    /\ IF UpToDate(file_timestamps, th.file, mtimes[th.file])
       THEN /\ SetThread(t, AfterReload(t, th))
            /\ last' = Event("reload_resource", th.file, "skipped", 0)
            /\ UNCHANGED lock
       ELSE /\ SetThread(t, [th EXCEPT !.pc = "store", !.mtime = mtimes[th.file]])
            /\ last' = Event("reload_resource", th.file, "read", 0)
            /\ lock' = t
    /\ result' = NoResult
    /\ UNCHANGED <<resources, file_timestamps, watched_files, mtimes,
                   monitor_vars, component_vars>>

\* reload_resource, lines 140-141: self.resources[resource_name] = data.
reload_resource_store(t) ==
    LET th == Thread(t) IN
    /\ th.pc = "store"
    /\ resources' = resources \cup {ResourceName(th.file)}
    /\ SetThread(t, [th EXCEPT !.pc = "stamp"])
    /\ last' = Event("reload_resource", th.file, "stored", 0)
    /\ result' = NoResult
    /\ UNCHANGED <<file_timestamps, watched_files, mtimes, lock,
                   monitor_vars, component_vars>>

\* reload_resource, lines 142-145: record the timestamp, watch the file,
\* leave the with block (the lock is released) and return.
reload_resource_stamp(t) ==
    LET th == Thread(t) IN
    /\ th.pc = "stamp"
    /\ file_timestamps' = [file_timestamps EXCEPT ![th.file] = th.mtime]
    /\ watched_files' = watched_files \cup {th.file}
    /\ lock' = "none"
    /\ SetThread(t, AfterReload(t, th))
    /\ last' = Event("reload_resource", th.file, "loaded", 0)
    /\ result' = NoResult
    /\ UNCHANGED <<resources, mtimes, monitor_vars, component_vars>>

\* reload_all_resources, line 191: self.resources.clear(), without the
\* lock.
reload_all_clear_resources ==
    /\ watched_files # {}
    /\ main_thread = Idle
    /\ resources' = {}
    /\ main_thread' = [Idle EXCEPT !.pc = "clear_timestamps"]
    /\ last' = Event("reload_all_resources", "", "called", 0)
    /\ result' = NoResult
    /\ UNCHANGED <<file_timestamps, watched_files, mtimes, lock, watcher_thread,
                   monitor_vars, component_vars>>

\* reload_all_resources, line 192: self.file_timestamps.clear(), without
\* the lock; then _load_all_resource_files lists the directory (line 110).
reload_all_clear_timestamps ==
    /\ main_thread.pc = "clear_timestamps"
    /\ file_timestamps' = [f \in Files |-> 0]
    /\ main_thread' = [Idle EXCEPT !.pc = "loop", !.todo = Files]
    /\ last' = Event("reload_all_resources", "", "cleared", 0)
    /\ result' = NoResult
    /\ UNCHANGED <<resources, watched_files, mtimes, lock, watcher_thread,
                   monitor_vars, component_vars>>

\* _load_all_resource_files, lines 110-113: the next file of the listing
\* (os.listdir gives them in any order) goes to reload_resource.
reload_all_next_file(f) ==
    /\ main_thread.pc = "loop"
    /\ f \in main_thread.todo
    /\ main_thread' = [pc |-> "lock", file |-> f, mtime |-> 0,
                       todo |-> main_thread.todo \ {f}]
    /\ last' = Event("reload_all_resources", f, "next", 0)
    /\ result' = NoResult
    /\ UNCHANGED <<resources, file_timestamps, watched_files, mtimes, lock,
                   watcher_thread, monitor_vars, component_vars>>

\* The listing is exhausted: reload_all_resources returns.
reload_all_return ==
    /\ main_thread.pc = "loop"
    /\ main_thread.todo = {}
    /\ main_thread' = Idle
    /\ last' = Event("reload_all_resources", "", "returned", 0)
    /\ result' = NoResult
    /\ UNCHANGED <<resources, file_timestamps, watched_files, mtimes, lock,
                   watcher_thread, monitor_vars, component_vars>>

\* ----------------------------------------------------------------- Next
\* The engine with all its callers; the clock stands still.
Next ==
    \/ \E c \in AddedConditions : add_condition(c)
    \/ \E n \in OpNames : remove_condition(n)
    \/ \E n \in OpNames, en \in BOOLEAN : enable_condition(n, en)
    \/ \E i \in 1..Len(loops), o \in ProbeOutcomes : monitor_loop(i, o, MaxAlerts)
    \/ start
    \/ stop_begin
    \/ tasks_cancelled
    \/ stop_end
    \/ clear_alerts
    \/ create_test_alert(MaxAlerts)

Spec == Init /\ [][Next]_vars

\* The alert log and its readers: the loops of a started engine and the
\* test-alert route append while the clock moves, callers query and clear.
NextLog ==
    \/ start
    \/ \E i \in 1..Len(loops), o \in ProbeOutcomes : monitor_loop(i, o, MaxLog)
    \/ create_test_alert(MaxLog)
    \/ clear_alerts
    \/ \E level \in Filters, limit \in Limits : get_alerts(level, limit)
    \/ tick
    \/ clock_set_back

SpecLog == Init /\ [][NextLog]_vars

\* Callers that keep what get_alerts returned while the loops and the
\* test-alert route append and the log is cleared.
NextSnapshot ==
    \/ start
    \/ \E i \in 1..Len(loops), o \in ProbeOutcomes : monitor_loop(i, o, MaxAlerts)
    \/ create_test_alert(MaxLog)
    \/ clear_alerts
    \/ \E level \in Filters : get_alerts(level, DefaultLimit)
    \/ caller_keeps

SpecSnapshot == Init /\ [][NextSnapshot]_vars

\* Conditions added to a running engine, which is started again with or
\* without a stop() in between, and the loops.
NextRestart ==
    \/ start_upto(MaxLoopsRestart)
    \/ \E c \in AddedConditions : add_condition(c)
    \/ \E i \in 1..Len(loops), o \in ProbeOutcomes : monitor_loop(i, o, MaxAlerts)
    \/ stop_begin
    \/ tasks_cancelled
    \/ stop_end

SpecRestart == Init /\ [][NextRestart]_vars

\* A scheduler that ran a callback while another one is inside a probe (a
\* second thread): what C29 excludes.
OnEventLoop_Preemptive(A) == A

\* The status route on an engine whose log grows beyond the ten alerts it
\* looks at: loops and the test-alert route append while the clock moves,
\* conditions are switched and removed.
NextStatus ==
    \/ start_upto(MaxLoopsStatus)
    \/ \E n \in OpNames, en \in BOOLEAN : enable_condition(n, en)
    \/ \E n \in OpNames : remove_condition(n)
    \/ \E i \in 1..Len(loops), o \in ProbeOutcomes : monitor_loop(i, o, MaxAlerts)
    \/ create_test_alert(MaxStatusLog)
    \/ clear_alerts
    \/ tick
    \/ get_monitoring_status

SpecStatus == Init /\ [][NextStatus]_vars

\* Every coroutine and request handler is a callback of the one event
\* loop: it runs only when the loop's thread is not inside another one.
OnEventLoop(A) == blocked = 0 /\ A

\* The engine with probes that may block: loops, queries and flag changes
\* of a started engine.
NextBlocked ==
    \/ OnEventLoop(start)
    \/ OnEventLoop(\E i \in 1..Len(loops), o \in ProbeOutcomes : monitor_loop(i, o, MaxAlerts))
    \/ \E i \in 1..Len(loops) : probe_blocks(i)
    \/ OnEventLoop(\E level \in Filters, limit \in Limits : get_alerts(level, limit))
    \/ OnEventLoop(get_conditions)
    \/ OnEventLoop(\E n \in OpNames, en \in BOOLEAN : enable_condition(n, en))

SpecBlocked == Init /\ [][NextBlocked]_vars

\* Evaluations whose probe takes time, and the lifecycle calls: whatever
\* else is ready waits until the probe has returned and the task has
\* reached its sleep.
NextAtomic ==
    \/ OnEventLoop(start)
    \/ OnEventLoop(\E i \in 1..Len(loops), o \in ProbeOutcomes : monitor_loop(i, o, MaxAlerts))
    \/ \E i \in 1..Len(loops) : probe_blocks(i)
    \/ \E o \in ProbeOutcomes : probe_returns(o, MaxAlerts)
    \/ OnEventLoop(stop_begin)
    \/ OnEventLoop(tasks_cancelled)
    \/ OnEventLoop(stop_end)
    \/ OnEventLoop(clear_alerts)

SpecAtomic == Init /\ [][NextAtomic]_vars

\* The registry and its callers on an engine that start() may have
\* started: conditions are added, replaced, removed, switched and listed.
NextRegistry ==
    \/ start
    \/ \E c \in RegistryConditions : add_condition(c)
    \/ \E n \in RegistryNames : remove_condition(n)
    \/ \E n \in RegistryNames, en \in BOOLEAN : enable_condition(n, en)
    \/ get_conditions

SpecRegistry == Init /\ [][NextRegistry]_vars

\* The component registry with the callers of its routes and the event
\* loop that runs the stop() tasks.
NextComponents ==
    \/ load_components
    \/ \E t \in TypeInputs, n \in InstanceInputs : create_component(t, n)
    \/ \E n \in InstanceInputs, t \in TypeInputs : replace_component(n, t)
    \/ \E n \in InstanceInputs : remove_component(n)
    \/ \E n \in InstanceInputs : start_component(n)
    \/ \E n \in InstanceInputs : stop_component(n)
    \/ component_stop_task

SpecComponents == Init /\ [][NextComponents]_vars

\* The event loop keeps running: a task that waits in its queue is run.
FairSpecComponents == SpecComponents /\ WF_vars(component_stop_task)

\* Under the scheduling of an event loop that keeps running its ready
\* callbacks: the cancelled tasks are resumed and stop() is resumed once
\* gather completes.
FairSpec == Spec /\ WF_vars(tasks_cancelled) /\ WF_vars(stop_end)

\* is_running(), lines 118-120.
is_running == running

\* The resource manager with its watcher thread: files are written while
\* POST /api/resources/reload runs (resource_routes.py lines 60-72).
NextResources ==
    \/ load_resources
    \/ \E f \in Files : modify_file(f)
    \/ \E f \in Files : on_modified(f)
    \/ \E t \in Threads : reload_resource_check(t)
    \/ \E t \in Threads : reload_resource_store(t)
    \/ \E t \in Threads : reload_resource_stamp(t)
    \/ reload_all_clear_resources
    \/ reload_all_clear_timestamps
    \/ \E f \in Files : reload_all_next_file(f)
    \/ reload_all_return

SpecResources == Init /\ [][NextResources]_vars

\* ------------------------------------------------------------- claims
\* The loops that have not ended.
Live(ls) == {k \in 1..Len(ls) : ls[k].pc # "done"}

Last(seq) == seq[Len(seq)]

Min(a, b) == IF a < b THEN a ELSE b

Max(a, b) == IF a > b THEN a ELSE b

\* How often alert a occurs in seq.
Count(seq, a) == Cardinality({k \in 1..Len(seq) : seq[k] = a})

\* The alerts of the log that a filter keeps, in log order.
Matching(log, level) ==
    IF level = NoLevel THEN log ELSE SelectSeq(log, LAMBDA a : a.level = level)

\* C1: a loop that wakes while its condition's enabled flag is false
\* neither invokes the probe nor appends an alert in that cycle.
C1_DisabledSkips ==
    (last.op = "loop" /\ ~loops[last.task].cond.enabled)
    => (last.outcome \notin ProbeOutcomes /\ Len(alerts) = last.before)

\* C1 witness: a loop of a registered, disabled condition has just run a
\* cycle and skipped it.
C1_Witness ==
    /\ last.op = "loop" /\ last.outcome = "skipped"
    /\ HasName(conditions, last.name)
    /\ ~loops[last.task].cond.enabled

\* C2: a cycle of an enabled, registered condition whose value the
\* validator rejects appends exactly one alert, with the condition's
\* severity and name.
C2_FailureAppendsOne ==
    (last.op = "loop" /\ last.outcome = "invalid")
    => /\ Len(alerts) = last.before + 1
       /\ Last(alerts).level = loops[last.task].cond.alert_level
       /\ Last(alerts).condition_name = loops[last.task].cond.name

\* C2 witness: a rejected value of the temperature condition has just been
\* logged with that condition's severity.
C2_Witness ==
    /\ last.op = "loop" /\ last.outcome = "invalid"
    /\ last.name = "temperature_sensor"
    /\ Len(alerts) = last.before + 1
    /\ Last(alerts).level = "critical"

\* C3: a cycle in which the probe raises appends exactly one alert, of
\* severity ERROR with current_value "ERROR" and expected_range "N/A",
\* whatever the condition's severity.
C3_ProbeErrorAppendsOne ==
    (last.op = "loop" /\ last.outcome = "raises")
    => /\ Len(alerts) = last.before + 1
       /\ Last(alerts).level = "error"
       /\ Last(alerts).current_value = "ERROR"
       /\ Last(alerts).expected_range = "N/A"
       /\ Last(alerts).condition_name = loops[last.task].cond.name

\* C3 witness: the probe of a condition configured CRITICAL has just raised
\* and the alert logged for it is an ERROR one.
C3_Witness ==
    /\ last.op = "loop" /\ last.outcome = "raises"
    /\ loops[last.task].cond.alert_level = "critical"
    /\ Len(alerts) = last.before + 1
    /\ Last(alerts).level = "error"

\* C4: a cycle whose value the validator accepts leaves the alert log as
\* it was and the loop waiting for its next wake.
C4_ValidAppendsNothing ==
    (last.op = "loop" /\ last.outcome = "valid")
    => (Len(alerts) = last.before /\ loops[last.task].pc = "waiting")

\* C4 witness: an accepted value has just been evaluated while the log
\* already held an alert.
C4_Witness ==
    /\ last.op = "loop" /\ last.outcome = "valid"
    /\ alerts # <<>>
    /\ loops[last.task].pc = "waiting"

\* C5: from the return of stop() until start() is called, is_running() is
\* false, no loop is alive and no loop has run a cycle.
C5_StoppedStaysQuiet ==
    lifecycle = "stopped"
    => (~is_running /\ Live(loops) = {} /\ last.op # "loop")

\* C5 witness: an alert has been appended by the test-alert route after
\* stop() returned on an engine that had been started.
C5_Witness ==
    /\ lifecycle = "stopped"
    /\ Len(conditions) >= Len(DefaultConditions)
    /\ last.op = "create_test_alert"

\* C6: stop() completes; when it returns no loop is left alive and the
\* task list is empty.
C6_StopJoins ==
    /\ [](last.op = "stop" => (tasks = <<>> /\ Live(loops) = {}))
    /\ (stop_pc = "gather") ~> (stop_pc = "idle")

\* C6 witness: stop() is about to return after two start() calls: every
\* loop of both calls has ended.
C6_Witness ==
    /\ stop_pc = "gather"
    /\ Len(tasks) = 2 * Len(DefaultConditions)
    /\ \A k \in Range(tasks) : loops[k].pc = "done"

\* C7: at most one live loop per condition name.
C7_OneLoopPerName ==
    \A i, j \in Live(loops) :
        loops[i].cond.name = loops[j].cond.name => i = j

\* C7 input: start() has just been called on an engine that was running,
\* and an alert of the first call's loops is already in the log.
C7_Witness ==
    /\ last.op = "start" /\ last.outcome = "was_running"
    /\ alerts # <<>>

\* C8: start() on an engine that is not running leaves it running with
\* exactly one loop for every registered condition, holding that
\* condition's object.
C8_StartSpawnsOnePerCondition ==
    (last.op = "start" /\ last.outcome = "was_stopped")
    => /\ is_running
       /\ \A k \in 1..Len(conditions) :
             Cardinality({i \in Live(loops) :
                            loops[i].cond.name = conditions[k].name}) = 1
       /\ \A i \in Live(loops) :
             /\ loops[i].shared
             /\ \E k \in 1..Len(conditions) : conditions[k] = loops[i].cond

\* C8 witness: start() has just run after an earlier run was stopped (the
\* log holds an alert of that run's loops), with a condition registered
\* through add_condition.
C8_Witness ==
    /\ last.op = "start" /\ last.outcome = "was_stopped"
    /\ HasName(conditions, "always_fail")
    /\ Len(loops) = Len(DefaultConditions) + 1
    /\ alerts # <<>> /\ alerts[1].condition_name = "cpu_usage"

\* C9: without a filter the result is in non-increasing timestamp order;
\* with a severity filter it holds only alerts of that severity, all of
\* them when the limit is large enough, in the order they have in the
\* unfiltered result.
C9_SortedAndFiltered ==
    last.op = "get_alerts" =>
        LET v == result.value
            all == GetAlerts(alerts, NoLevel, DefaultLimit)
        IN  /\ result.level = NoLevel =>
                 \A k \in 1..(Len(v) - 1) : v[k].timestamp >= v[k + 1].timestamp
            /\ result.level # NoLevel =>
                 /\ \A k \in 1..Len(v) : v[k].level = result.level
                 /\ result.limit >= Len(alerts) =>
                      /\ \A a \in Range(alerts) :
                            a.level = result.level => Count(v, a) = Count(alerts, a)
                      /\ v = SelectSeq(all, LAMBDA a : a.level = result.level)

\* C9 witness: a filtered query has just returned two alerts that the log
\* holds oldest first.
C9_Witness ==
    /\ last.op = "get_alerts"
    /\ result.level = "warning" /\ result.limit = DefaultLimit
    /\ Len(result.value) = 2
    /\ alerts[1].timestamp < alerts[2].timestamp

\* The alerts a result leaves out are no newer than those it holds.
NewestKept(v, log, level) ==
    /\ \A a \in Range(v) : Count(v, a) <= Count(Matching(log, level), a)
    /\ \A a \in Range(Matching(log, level)) :
          Count(v, a) < Count(Matching(log, level), a)
          => \A k \in 1..Len(v) : v[k].timestamp >= a.timestamp

\* C10: for every limit the result holds min(limit, matching) alerts, and
\* they are the newest matching ones.
C10_TruncatedToNewest ==
    last.op = "get_alerts" =>
        /\ Len(result.value) = Min(result.limit, Len(Matching(alerts, result.level)))
        /\ NewestKept(result.value, alerts, result.level)

\* C10 input: the /alerts route passes limit = -1 on; of two logged alerts
\* the query returns one.
C10_Witness ==
    /\ last.op = "get_alerts"
    /\ result.limit = -1 /\ result.level = NoLevel
    /\ Len(alerts) = 2
    /\ Len(result.value) = 1

\* What get_alerts does keep: with a limit of 0 or more the result holds
\* min(limit, matching) alerts, with a negative limit all matching alerts
\* but the -limit oldest, and in both cases the newest ones.
GetAlertsKeepsNewest ==
    last.op = "get_alerts" =>
        LET n == Len(Matching(alerts, result.level)) IN
        /\ result.limit >= 0 => Len(result.value) = Min(result.limit, n)
        /\ result.limit < 0 => Len(result.value) = Max(0, n + result.limit)
        /\ NewestKept(result.value, alerts, result.level)

\* C11: clear_alerts() is atomic with respect to appends: right after it
\* the log is empty and get_alerts() returns the empty sequence, and at
\* every moment the log holds exactly the alerts appended since the last
\* clear, each once and in the order they were appended.
C11_ClearIsAtomic ==
    /\ last.op = "clear_alerts" =>
          (alerts = <<>> /\ GetAlerts(alerts, NoLevel, DefaultLimit) = <<>>)
    /\ alerts = since_clear

\* C11 witness: clear_alerts() has just emptied a log that loops and the
\* test-alert route had filled while the engine was running.
C11_Witness ==
    /\ last.op = "clear_alerts"
    /\ last.before = MaxLog
    /\ running /\ Live(loops) # {}
    /\ alerts = <<>>

\* C12: an alert appended through the test-alert route makes
\* get_alerts(limit=1000) one longer and is its first element, whatever the
\* log held before.
C12_TestAlertComesFirst ==
    last.op = "create_test_alert" =>
        LET v == GetAlerts(alerts, NoLevel, 1000)
        IN  /\ Len(v) = last.before + 1
            /\ v[1] = Last(alerts)

\* C12 input: the test alert has just been appended after the wall clock
\* was set back, behind an alert with a later timestamp; get_alerts puts
\* the older entry first.
C12_Witness ==
    /\ last.op = "create_test_alert"
    /\ Len(alerts) = 2
    /\ alerts[1].timestamp > alerts[2].timestamp
    /\ GetAlerts(alerts, NoLevel, 1000) = <<alerts[1], alerts[2]>>

\* What the test-alert route does guarantee: the result grows by one and
\* holds the new alert.
TestAlertAddsOne ==
    last.op = "create_test_alert" =>
        LET v == GetAlerts(alerts, NoLevel, 1000)
        IN  /\ Len(v) = last.before + 1
            /\ Count(v, Last(alerts)) = Count(alerts, Last(alerts))

\* C13: a loop that wakes after its name was removed from the registry
\* terminates.
C13_RemovedLoopExits ==
    (last.op \in {"loop", "loop_exit"} /\ ~HasName(conditions, last.name))
    => loops[last.task].pc = "done"

\* C13 input: the loop of the removed temperature condition has just woken
\* on a running engine; it skipped the evaluation and sleeps again.
C13_Witness ==
    /\ last.op = "loop" /\ last.outcome = "skipped"
    /\ last.name = "temperature_sensor"
    /\ ~HasName(conditions, "temperature_sensor")
    /\ running
    /\ loops[last.task].pc = "waiting"

\* C14: the first step of a loop task only starts its sleep: it invokes no
\* probe and appends no alert.
C14_SleepsBeforeFirstCheck ==
    (last.op = "loop" /\ last.first)
    => (last.outcome \notin ProbeOutcomes /\ Len(alerts) = last.before)

\* C14 input: the task start() created for the network condition (interval
\* 20 s) has run its first step, before any sleep, and an alert of that
\* condition is in the log.
C14_Witness ==
    /\ last.op = "loop" /\ last.first
    /\ last.name = "network_connectivity"
    /\ last.outcome = "invalid"
    /\ Len(alerts) = last.before + 1
    /\ Last(alerts).condition_name = "network_connectivity"

\* C15: a cycle in which probe or validator raises leaves the loop alive
\* and the engine running: the failure becomes one ERROR alert, and the
\* loop, still registered and enabled, can evaluate again at its next
\* wake.
C15_ProbeFailureContained ==
    (last.op = "loop" /\ last.outcome = "raises")
    => /\ loops[last.task].pc = "waiting"
       /\ is_running
       /\ last.task \in Range(tasks)
       /\ Len(alerts) = last.before + 1
       /\ Last(alerts).level = "error"
       /\ ShouldCheck(loops[last.task].cond)
       /\ ENABLED monitor_loop(last.task, "valid", MaxAlerts)

\* C15 witness: the probe of the memory condition has just raised on a
\* running engine; its loop waits for the next wake.
C15_Witness ==
    /\ last.op = "loop" /\ last.outcome = "raises"
    /\ last.name = "memory_available"
    /\ loops[last.task].pc = "waiting"
    /\ is_running
    /\ Last(alerts).current_value = "ERROR"

\* C16: while the probe of one condition does not return, the loops of
\* the other conditions can still run and get_alerts, get_conditions and
\* enable_condition still complete.
C16_BlockedProbeIsIsolated ==
    blocked # 0 =>
        /\ \A j \in Live(loops) \ {blocked} :
               ENABLED OnEventLoop(monitor_loop(j, "valid", MaxAlerts))
        /\ ENABLED OnEventLoop(get_alerts(NoLevel, DefaultLimit))
        /\ ENABLED OnEventLoop(get_conditions)
        /\ \A n \in OpNames : ENABLED OnEventLoop(enable_condition(n, TRUE))

\* C16 input: the probe of the cpu condition has been called and has not
\* returned, while the loops of the three other defaults are waiting.
C16_Witness ==
    /\ blocked # 0
    /\ loops[blocked].cond.name = "cpu_usage"
    /\ Cardinality({j \in Live(loops) : loops[j].pc = "waiting"}) >= Len(DefaultConditions)
    /\ ~ ENABLED NextBlocked

\* C17: a loop appends an alert only for a name whose registry entry is
\* enabled at the time of the evaluation.
C17_NoAlertWhenEntryDisabled ==
    (last.op = "loop" /\ Len(alerts) > last.before)
    => \E k \in 1..Len(conditions) :
          conditions[k].name = last.name /\ conditions[k].enabled

\* C17 input: after a second start() the temperature condition was
\* disabled; a loop of the first start(), which holds the replaced object,
\* has just appended an alert bearing that name.
C17_Witness ==
    /\ last.op = "loop" /\ Len(alerts) = last.before + 1
    /\ last.name = "temperature_sensor"
    /\ Last(alerts).condition_name = "temperature_sensor"
    /\ ~loops[last.task].shared
    /\ \E k \in 1..Len(conditions) :
          conditions[k].name = "temperature_sensor" /\ ~conditions[k].enabled

\* The engine's state as its callers and loops see it.
engine == <<conditions, alerts, running, tasks, loops, stop_pc>>

\* The entries of a registry under other names than n, in order.
Others(conds, n) == SelectSeq(conds, LAMBDA c : c.name # n)

\* C18: names are unique in the registry at every instant, and
\* add_condition(c) is an upsert by name: afterwards exactly one entry is
\* named c.name, get_conditions() reports c's description, enabled flag,
\* severity and interval under it, the registry is one longer if the name
\* was new and as long as before otherwise, and the other entries are
\* unchanged.
C18_AddConditionUpserts ==
    /\ [](\A i, j \in 1..Len(conditions) :
            conditions[i].name = conditions[j].name => i = j)
    /\ [][\A c \in RegistryConditions :
            (last'.op = "add_condition" /\ last'.name = c.name) =>
               /\ Cardinality({k \in 1..Len(conditions') : conditions'[k].name = c.name}) = 1
               /\ \E k \in 1..Len(conditions') :
                     GetConditions(conditions')[k] =
                        [name |-> c.name, description |-> c.description,
                         enabled |-> c.enabled, alert_level |-> c.alert_level,
                         check_interval |-> c.check_interval]
               /\ Len(conditions') =
                     Len(conditions) + (IF HasName(conditions, c.name) THEN 0 ELSE 1)
               /\ Others(conditions', c.name) = Others(conditions, c.name)]_vars

\* C18 witness: add_condition has just replaced the default cpu condition
\* of a started engine: the registry still holds four entries, and the cpu
\* entry reports the new description and its disabled flag.
C18_Witness ==
    /\ last.op = "add_condition" /\ last.name = "cpu_usage"
    /\ Len(conditions) = Len(DefaultConditions)
    /\ GetConditions(conditions)[1].description = "CPU por debajo del 50%"
    /\ ~GetConditions(conditions)[1].enabled
    /\ \E i \in Live(loops) : loops[i].cond.name = "cpu_usage" /\ ~loops[i].shared

\* C19: enable_condition and remove_condition with a name that is not in the
\* registry complete and change nothing: registry, alert log, running flag,
\* tasks and loops are as before.
C19_AbsentNameIsNoOp ==
    /\ [](\A n \in RegistryNames :
            /\ ENABLED remove_condition(n)
            /\ \A en \in BOOLEAN : ENABLED enable_condition(n, en))
    /\ [][(/\ last'.op \in {"enable_condition", "remove_condition"}
           /\ ~HasName(conditions, last'.name))
          => UNCHANGED engine]_vars

\* C19 witness: enable_condition has just been called on a started engine
\* with a name its registry does not hold.
C19_Witness ==
    /\ last.op = "enable_condition" /\ last.name = "always_fail"
    /\ ~HasName(conditions, "always_fail")
    /\ is_running /\ Live(loops) # {}

\* C20: enable_condition(name, b) called again right after
\* enable_condition(name, b) leaves the engine's state as the first call
\* left it.
C20_EnableIsIdempotent ==
    [][(/\ last.op = "enable_condition" /\ last'.op = "enable_condition"
        /\ last'.name = last.name /\ last'.outcome = last.outcome)
       => UNCHANGED engine]_vars

\* C20 witness: the temperature condition of a started engine has just
\* been disabled, its loop sees the flag, and the same call can be made
\* again.
C20_Witness ==
    /\ last.op = "enable_condition" /\ last.outcome = "disable"
    /\ last.name = "temperature_sensor"
    /\ \E i \in Live(loops) :
          /\ loops[i].cond.name = "temperature_sensor"
          /\ loops[i].shared /\ ~loops[i].cond.enabled
    /\ ENABLED enable_condition("temperature_sensor", FALSE)

\* C21: no two alerts of the log have the same id.
C21_AlertIdsUnique ==
    \A i, j \in 1..Len(alerts) : alerts[i].id = alerts[j].id => i = j

\* C21 input: the test-alert route has been called twice within one second
\* of the clock, at two different clock readings.
C21_Witness ==
    /\ Len(alerts) = 2
    /\ alerts[1].condition_name = "test_condition"
    /\ alerts[2].condition_name = "test_condition"
    /\ alerts[1].timestamp # alerts[2].timestamp
    /\ alerts[1].id = alerts[2].id

\* C22: the condition_name of an alert is the name of a condition that is
\* in the registry when the alert is created.
C22_AlertNamesACondition ==
    (last.op \in {"loop", "create_test_alert"} /\ Len(alerts) = last.before + 1)
    => HasName(conditions, Last(alerts).condition_name)

\* C22 input: the test-alert route has just appended its alert on a
\* started engine; no condition of the registry bears the alert's name.
C22_Witness ==
    /\ last.op = "create_test_alert"
    /\ is_running /\ Len(conditions) >= Len(DefaultConditions)
    /\ Last(alerts).condition_name = "test_condition"
    /\ ~HasName(conditions, "test_condition")

\* What the loops do guarantee: an alert a loop appends bears a name that
\* is in the registry at that moment.
LoopAlertNamesACondition ==
    (last.op = "loop" /\ Len(alerts) = last.before + 1)
    => /\ HasName(conditions, Last(alerts).condition_name)
       /\ Last(alerts).condition_name = last.name

\* C23: is_running() is false before the first start() and true after a
\* start(), and it is true exactly when some loop can still perform an
\* evaluation; while stop() waits for the loops, the flag is false and
\* every loop that has not ended yet is cancelled.
CanEvaluate(k) == loops[k].pc = "waiting"

C23_RunningIffLoopActive ==
    /\ lifecycle = "new" => ~is_running
    /\ last.op = "start" => is_running
    /\ is_running <=> \E k \in 1..Len(loops) : CanEvaluate(k)
    /\ stop_pc = "gather" => ~is_running

\* C23 input: stop() is waiting for loops that were cancelled and have not
\* ended yet.
C23_Witness ==
    /\ stop_pc = "gather" /\ ~is_running
    /\ Live(loops) # {}
    /\ \A k \in Live(loops) : ~CanEvaluate(k)

\* C24: a step that is not clear_alerts() keeps every entry of the log in
\* its place and unmodified, and adds new alerts only at the end.
IsPrefix(s, t) == Len(s) <= Len(t) /\ SubSeq(t, 1, Len(s)) = s

C24_AppendOnlyBetweenClears ==
    [][\/ IsPrefix(alerts, alerts')
       \/ last'.op = "clear_alerts" /\ alerts' = <<>>]_vars

\* C24 input: a loop or the test-alert route has appended to a log that
\* already held an alert.
C24_Witness ==
    /\ last.op \in {"loop", "create_test_alert"}
    /\ last.before = 1 /\ Len(alerts) = 2

\* The operations on registry and lifecycle, which SpecLog leaves out, do
\* not touch the log (checked under Spec).
LogUntouchedByRegistryAndLifecycle ==
    [][last'.op \in {"add_condition", "remove_condition", "enable_condition",
                      "start", "stop", "stop_begin", "tasks_cancelled"}
       => alerts' = alerts]_vars

\* C25: the list a caller got from get_alerts is changed neither by an
\* alert appended afterwards nor by a later clear_alerts(), and a call of
\* get_alerts, with or without a filter, leaves the log as it is.
C25_GetAlertsIsSnapshot ==
    [][/\ last'.op = "get_alerts" => alerts' = alerts
       /\ (held.object # "none" /\ last'.op # "caller_keeps") => held' = held]_vars

\* C25 input: a caller holds a non-empty result, and the log has just been
\* appended to or cleared.
C25_Witness ==
    /\ held.object # "none" /\ held.value # <<>>
    /\ last.op \in {"loop", "create_test_alert", "clear_alerts"}
    /\ Len(alerts) # last.before
    /\ Len(alerts) # Len(held.value)

\* C26: enable_condition(name, enabled) on a registered name sets that
\* entry's enabled flag and nothing else: no probe runs and the log is as
\* before, the entry's other fields and the other entries are as before,
\* and so are the running flag, the task handles and the loops (a loop that
\* holds the registered object reads the new flag in it).
C26_EnableChangesOnlyTheFlag ==
    [][(last'.op = "enable_condition" /\ HasName(conditions, last'.name)) =>
          LET p == KeyPos(conditions, last'.name) IN
          /\ conditions' = [conditions EXCEPT ![p].enabled = (last'.outcome = "enable")]
          /\ alerts' = alerts /\ woken' = woken
          /\ running' = running /\ tasks' = tasks /\ stop_pc' = stop_pc
          /\ Len(loops') = Len(loops)
          /\ \A k \in 1..Len(loops) :
                /\ loops'[k].pc = loops[k].pc /\ loops'[k].shared = loops[k].shared
                /\ [loops'[k].cond EXCEPT !.enabled = loops[k].cond.enabled] = loops[k].cond
                /\ loops'[k].cond.enabled # loops[k].cond.enabled
                     => (loops[k].shared /\ loops[k].cond.name = last'.name)]_vars

\* C26 input: the temperature condition of an engine started twice has just
\* been disabled while the log holds an alert; the loop of the second
\* start() reads the flag, the loop of the first one holds the replaced object.
C26_Witness ==
    /\ last.op = "enable_condition" /\ last.outcome = "disable"
    /\ last.name = "temperature_sensor"
    /\ is_running /\ alerts # <<>>
    /\ \E i, j \in Live(loops) :
          /\ loops[i].cond.name = "temperature_sensor" /\ loops[i].shared
          /\ ~loops[i].cond.enabled
          /\ loops[j].cond.name = "temperature_sensor" /\ ~loops[j].shared
          /\ loops[j].cond.enabled

\* C27: clear_alerts() leaves the log empty and the registry (names,
\* flags, severities, intervals, order), the running flag, the task handles
\* and the loops as they were.
C27_ClearTouchesOnlyTheLog ==
    [][last'.op = "clear_alerts"
       => (alerts' = <<>> /\ UNCHANGED <<conditions, running, tasks, loops, stop_pc, woken>>)]_vars

\* C27 input: the log of a running engine, whose registry holds an added
\* condition and a disabled one, has just been cleared of an alert.
C27_Witness ==
    /\ last.op = "clear_alerts" /\ last.before > 0 /\ alerts = <<>>
    /\ is_running /\ Live(loops) # {}
    /\ HasName(conditions, "always_fail")
    /\ \E k \in 1..Len(conditions) : ~conditions[k].enabled

\* No loop that has not ended holds a condition named n.
NoLoopFor(ls, n) == \A k \in Live(ls) : ls[k].cond.name # n

\* The names add_condition registers.
AddedNames == {c.name : c \in AddedConditions}

\* C28: a name that is registered on a running engine and has no loop gets
\* none, and no loop appends an alert or runs a probe for it, for as long as
\* the engine is not stopped.
C28_NoLoopUntilRestart ==
    [][\A n \in AddedNames :
          (/\ is_running /\ is_running'
           /\ HasName(conditions, n) /\ NoLoopFor(loops, n))
          => /\ NoLoopFor(loops', n)
             /\ ~(last'.op = "loop" /\ last'.name = n /\ last'.task \in Live(loops'))]_vars

\* C28 input: start(), add_condition of a new name, start() again with no
\* stop() in between: the engine has two loops for the temperature
\* condition (one of each start) and one for the added name, which only
\* the second start() can have spawned.
C28_Witness ==
    /\ last.op = "start" /\ last.outcome = "was_running"
    /\ Cardinality({k \in Live(loops) : loops[k].cond.name = "temperature_sensor"}) = 2
    /\ Cardinality({k \in Live(loops) : loops[k].cond.name = "always_fail"}) = 1

\* What the code does guarantee: no step other than start() gives a loop
\* to a name that has none.
LoopsSpawnedOnlyInStart ==
    [][last'.op # "start" =>
          \A n \in AddedNames \cup {DefaultConditions[k].name : k \in 1..Len(DefaultConditions)} :
              NoLoopFor(loops, n) => NoLoopFor(loops', n)]_vars

\* An alert with every field of the dataclass set (lines 20-28).
FullyConstructed(a) ==
    /\ DOMAIN a = {"id", "level", "message", "timestamp", "condition_name",
                   "current_value", "expected_range"}
    /\ a.level \in AlertLevel
    /\ a.id[1] \in {"alert", "error"}
    /\ a.id[2] = a.condition_name
    /\ a.id[3] = Seconds(a.timestamp)

\* C29: while a loop is between the call of its probe and its next sleep,
\* stop() has not cancelled it and is not under way, and no other task has
\* run; a probe call that has returned a value the validator rejects has
\* left exactly one alert, the failure alert of its condition, at the end
\* of the log; every alert of the log is fully constructed.
C29_EvaluationIsAtomic ==
    /\ blocked # 0 =>
          /\ loops[blocked].pc = "waiting"
          /\ is_running /\ stop_pc = "idle"
          /\ last.op = "loop_blocked" /\ last.task = blocked
          /\ Len(alerts) = last.before
    /\ last.op = "probe_returns" =>
          /\ loops[last.task].pc = "waiting"
          /\ last.outcome = "invalid" =>
                /\ Len(alerts) = last.before + 1
                /\ Last(alerts) = FailureAlert(loops[last.task].cond, ProbeValue("invalid"), now)
    /\ \A k \in 1..Len(alerts) : FullyConstructed(alerts[k])

\* C29 input: a probe that took its time has returned a rejected value on a
\* running engine; its alert is in the log and stop() can run now.
C29_Witness ==
    /\ last.op = "probe_returns" /\ last.outcome = "invalid"
    /\ Len(alerts) = last.before + 1
    /\ blocked = 0 /\ is_running
    /\ ENABLED OnEventLoop(stop_begin)

\* C30: in the report of the status route total_conditions is the size of
\* the registry, enabled_conditions the number of its entries whose flag is
\* true (at most total_conditions), total_alerts the length of the log,
\* recent_alerts the smaller of total_alerts and 10, and the counts per
\* severity add up to recent_alerts: they count the alerts get_alerts kept,
\* which are no older than those it left out.
C30_StatusCounts ==
    last.op = "get_monitoring_status" =>
        LET s == result.value
            kept == GetAlerts(alerts, NoLevel, StatusLimit)
        IN  /\ s.is_running = is_running
            /\ s.total_conditions = Len(conditions)
            /\ s.enabled_conditions =
                   Cardinality({k \in 1..Len(conditions) : conditions[k].enabled})
            /\ s.enabled_conditions <= s.total_conditions
            /\ s.total_alerts = Len(alerts)
            /\ s.recent_alerts = Min(s.total_alerts, StatusLimit)
            /\ s.alert_levels["info"] + s.alert_levels["warning"]
                 + s.alert_levels["error"] + s.alert_levels["critical"] = s.recent_alerts
            /\ \A l \in AlertLevel :
                  /\ s.alert_levels[l] <= Len(Matching(alerts, l))
                  /\ s.total_alerts <= StatusLimit => s.alert_levels[l] = Len(Matching(alerts, l))
            /\ NewestKept(kept, alerts, NoLevel)

\* C30 input: the status of an engine whose log holds eleven alerts, the
\* oldest of them an error alert of a loop that the report leaves out, and
\* whose registry holds a disabled condition.
C30_Witness ==
    /\ last.op = "get_monitoring_status"
    /\ result.value.total_alerts = StatusLimit + 1
    /\ result.value.recent_alerts = StatusLimit
    /\ alerts[1].level = "error" /\ alerts[1].timestamp < alerts[2].timestamp
    /\ result.value.alert_levels["error"] = 0
    /\ result.value.enabled_conditions < result.value.total_conditions

\* The names of the default conditions.
DefaultNames == {DefaultConditions[k].name : k \in 1..Len(DefaultConditions)}

\* C31: after every start() each default name is registered with the
\* default condition, enabled, whatever was disabled or removed before;
\* the entries under other names and the alert log are as before the call.
C31_StartReRegistersDefaults ==
    [][last'.op = "start" =>
          /\ \A k \in 1..Len(DefaultConditions) :
                /\ HasName(conditions', DefaultConditions[k].name)
                /\ conditions'[KeyPos(conditions', DefaultConditions[k].name)] = DefaultConditions[k]
                /\ conditions'[KeyPos(conditions', DefaultConditions[k].name)].enabled
          /\ SelectSeq(conditions', LAMBDA c : c.name \notin DefaultNames)
               = SelectSeq(conditions, LAMBDA c : c.name \notin DefaultNames)
          /\ alerts' = alerts]_vars

\* C31 input: the temperature condition of a running engine was disabled
\* and start() has run again: the registry holds it enabled, the loop of
\* the first start() holds the disabled object, and the log holds an alert.
C31_Witness ==
    /\ last.op = "start" /\ last.outcome = "was_running"
    /\ alerts # <<>>
    /\ conditions[KeyPos(conditions, "temperature_sensor")].enabled
    /\ \E i \in Live(loops) :
          /\ loops[i].cond.name = "temperature_sensor"
          /\ ~loops[i].shared /\ ~loops[i].cond.enabled

\* C32: a loop that wakes while its condition's name is not in the registry
\* runs no probe and appends nothing; once the name is registered again, a
\* loop goes by the Condition object it was spawned with: that object's
\* enabled flag decides whether it evaluates, and a failure alert bears
\* that object's severity.
C32_AbsentNameIsSkipped ==
    last.op = "loop" =>
        LET own == loops[last.task].cond IN
        /\ ~HasName(conditions, last.name) =>
              (last.outcome = "skipped" /\ Len(alerts) = last.before)
        /\ HasName(conditions, last.name) =>
              /\ last.outcome = "skipped" <=> ~own.enabled
              /\ last.outcome = "invalid" =>
                    Last(alerts) = FailureAlert(own, ProbeValue("invalid"), now)

\* C32 input: the added condition was registered again after its loop was
\* spawned, and the new entry was disabled; the loop, which holds the
\* object it was spawned with, has just appended a failure alert.
C32_Witness ==
    /\ last.op = "loop" /\ last.name = "always_fail" /\ last.outcome = "invalid"
    /\ ~loops[last.task].shared
    /\ HasName(conditions, "always_fail")
    /\ ~conditions[KeyPos(conditions, "always_fail")].enabled
    /\ Len(alerts) = last.before + 1

\* The other half of C32's case: a loop has just woken while its name is
\* out of the registry.
C32_SkippedWhileAbsent ==
    /\ last.op = "loop" /\ ~HasName(conditions, last.name)
    /\ loops[last.task].cond.enabled

\* The instance names that have an entry in the registry.
Registered(comps) == {n \in InstanceNames : comps[n] # 0}

\* No entry of the registry refers to object o.
Orphan(o) == \A n \in InstanceNames : components[n] # o

\* A stop() task for object o with that cause waits on the event loop.
Waiting(o, cause) ==
    \E k \in 1..Len(stop_tasks) : stop_tasks[k] = [obj |-> o, cause |-> cause]

\* Object o exists and is in that state.
InState(o, st) == o <= Len(objects) /\ objects[o].state = st

\* C33: a replace_component call that returns False leaves the registry and
\* every component as they were, and no component changes its state later
\* on behalf of that call.
C33_FailedReplaceKeepsComponent ==
    [][/\ (last'.op = "replace_component" /\ last'.outcome = "false")
            => (components' = components /\ objects' = objects)
       /\ (last'.op = "stop_task" /\ last'.outcome = "replace_failed")
            => objects' = objects]_vars

\* C33 input: replace_component("logging", "no_such_type") has returned
\* False; the logging component is still registered and RUNNING, and the
\* stop() task the call created for it waits on the event loop.
C33_Witness ==
    /\ last.op = "replace_component" /\ last.name = "logging"
    /\ last.outcome = "false"
    /\ components["logging"] # 0
    /\ objects[components["logging"]].state = "running"
    /\ Waiting(components["logging"], "replace_failed")

\* What the code does guarantee: on return from a failed call registry and
\* components are as before, and a call with an unknown instance name
\* leaves nothing behind.
FailedReplaceAtReturn ==
    [][(last'.op = "replace_component" /\ last'.outcome = "false")
          => /\ components' = components /\ objects' = objects
             /\ components[last'.name] = 0 => stop_tasks' = stop_tasks]_vars

\* C34: a replace_component call that returns True has put a new object of
\* the new type, in state STOPPED, under the instance name; the other
\* entries, the other objects and the number of entries are as before; and
\* a component that was replaced while RUNNING is STOPPED at some later
\* time.
C34_ReplaceInstallsStoppedInstance ==
    /\ [][\A n \in InstanceInputs, t \in TypeInputs :
            (replace_component(n, t) /\ last'.outcome = "true") =>
               /\ components'[n] = Len(objects) + 1
               /\ Len(objects') = Len(objects) + 1
               /\ objects'[components'[n]] = [class |-> t, state |-> "stopped"]
               /\ \A o \in 1..Len(objects) : objects'[o] = objects[o]
               /\ \A x \in InstanceNames \ {n} : components'[x] = components[x]
               /\ Cardinality(Registered(components')) = Cardinality(Registered(components))]_vars
    /\ \A o \in 1..MaxObjects :
          Waiting(o, "replaced") ~> InState(o, "stopped")

\* C34 input: the RUNNING logging component has just been replaced: the new
\* object is STOPPED, the old one is out of the registry, still RUNNING,
\* and its stop() task waits.
C34_Witness ==
    /\ last.op = "replace_component" /\ last.outcome = "true"
    /\ objects[components[last.name]].state = "stopped"
    /\ \E o \in 1..Len(objects) :
          /\ Orphan(o) /\ objects[o].state = "running"
          /\ Waiting(o, "replaced")

\* C35: a component that no entry of the registry refers to and that is
\* RUNNING is STOPPED at some later time.
C35_OrphansGetStopped ==
    \A o \in 1..MaxObjects :
        (Orphan(o) /\ InState(o, "running")) ~> InState(o, "stopped")

\* C35 input: create_component has just put a new object under the name of
\* a RUNNING component: the old object is out of the registry, RUNNING, and
\* no stop() task waits for it.
C35_Witness ==
    /\ last.op = "create_component" /\ last.outcome = "true"
    /\ stop_tasks = <<>>
    /\ \E o \in 1..Len(objects) : Orphan(o) /\ objects[o].state = "running"

\* What the code does guarantee: a component that was removed or replaced
\* while RUNNING is STOPPED at some later time.
RemovedAndReplacedGetStopped ==
    \A o \in 1..MaxObjects :
        (Waiting(o, "removed") \/ Waiting(o, "replaced")) ~> InState(o, "stopped")

\* C36: when reload_all_resources() has returned, every resource file of
\* the directory has an entry in the resource map, whatever the watcher
\* thread did with reload_resource meanwhile.
C36_ReloadAllLoadsEveryFile ==
    (last.op = "reload_all_resources" /\ last.outcome = "returned")
        => \A f \in Files : ResourceName(f) \in resources

\* C36 input: reload_all_resources has returned after the watcher thread
\* loaded a file during the call, and that file has no entry although its
\* recorded timestamp says it is up to date.
C36_Witness ==
    /\ last.op = "reload_all_resources" /\ last.outcome = "returned"
    /\ watcher_thread.pc = "idle" /\ lock = "none"
    /\ \E f \in Files :
          /\ ResourceName(f) \notin resources
          /\ UpToDate(file_timestamps, f, mtimes[f])

\* Why the overwritten component of C35 never stops, whatever is called
\* afterwards: a RUNNING component that no name refers to and that no
\* stop() task waits for stays RUNNING and unreferenced in every step.
OrphanStaysRunning ==
    [][\A o \in 1..Len(objects) :
          (/\ Orphan(o) /\ objects[o].state = "running"
           /\ \A k \in 1..Len(stop_tasks) : stop_tasks[k].obj # o)
          => (/\ objects'[o].state = "running"
              /\ \A n \in InstanceNames : components'[n] # o
              /\ \A k \in 1..Len(stop_tasks') : stop_tasks'[k].obj # o)]_vars

\* What the lock does give: the two threads are never both between
\* taking and releasing it.
LockIsExclusive ==
    /\ \A t \in Threads : Thread(t).pc \in {"store", "stamp"} <=> lock = t
    /\ ~(main_thread.pc \in {"store", "stamp"} /\ watcher_thread.pc \in {"store", "stamp"})

\* What reload_all_resources does give: on return every file has an entry
\* or a recorded timestamp, and a file without an entry is one the watcher
\* stamped after the clear of line 192.
ReloadAllLoadsOrStamped ==
    (last.op = "reload_all_resources" /\ last.outcome = "returned")
        => \A f \in Files : ResourceName(f) \in resources \/ file_timestamps[f] # 0

====
